---- MODULE Spec2Model ----
(***************************************************************************)
(* A model of compellent/delete_devices.py: main() validates the command   *)
(* line, disk_associations() collects the multipath map and the protected  *)
(* set from four host queries, and delete_devices() resolves the request   *)
(* and flushes / offlines / deletes the resolved devices.                  *)
(*                                                                         *)
(* Python strings are sequences of one-character strings, so that the      *)
(* regular expressions, str.strip, str.lower and the substring test of     *)
(* main() are computed on characters as the code computes them.            *)
(***************************************************************************)
EXTENDS Integers, Sequences, FiniteSets, TLC

(***************************************************************************)
(* Bounds of the explored inputs.                                          *)
(***************************************************************************)
\* device arguments on the command line (after -s and -m together)
MaxArgs == 2
\* lines of output of the mount listing, and of the physical-volume listing
MaxLines == 1
\* member paths of one multipath alias on the host
MaxPaths == 2

(***************************************************************************)
(* Characters and the names the host and the command line are built from.  *)
(***************************************************************************)
Alpha == {"a", "b", "c", "d", "e", "f", "g", "h", "i", "j", "k", "l", "m",
          "n", "o", "p", "q", "r", "s", "t", "u", "v", "w", "x", "y", "z",
          "A", "B", "C", "D", "E", "F", "G", "H", "I", "J", "K", "L", "M",
          "N", "O", "P", "Q", "R", "S", "T", "U", "V", "W", "X", "Y", "Z"}
Digit == {"0", "1", "2", "3", "4", "5", "6", "7", "8", "9"}
\* \w of the re module
Word == Alpha \cup Digit \cup {"_"}
\* \s of the re module, and the characters str.strip() removes
Space == {" ", "\t"}
\* the backquote character of the multipath tree drawing
BackQuote == "<bq>"

sda == <<"s", "d", "a">>
sdb == <<"s", "d", "b">>
sdc == <<"s", "d", "c">>
\* a block device of /sys/block that is not a SCSI disk
dm0 == <<"d", "m", "-", "0">>
\* the SCSI disks of the host
DiskNames == {sda, sdb, sdc}
\* two multipath aliases; the second one contains a hyphen
vol == <<"v">>
vol_a == <<"v", "-", "a">>
AliasNames == {vol, vol_a}

EmptyStr == << >>
\* None, for an unmatched group of a match object
None == <<"<None>">>
\* the result of a regular expression that does not match
Fail == <<"<fail>">>

(***************************************************************************)
(* String primitives.                                                      *)
(***************************************************************************)
StartsWith(s, p) == Len(s) >= Len(p) /\ SubSeq(s, 1, Len(p)) = p

\* tail of s from position i (1-based), the empty string past the end
From(s, i) == IF i > Len(s) THEN EmptyStr ELSE SubSeq(s, i, Len(s))

\* number of leading characters of s that belong to class C (a greedy C*)
RECURSIVE Span(_, _)
Span(s, C) ==
    IF s = EmptyStr \/ Head(s) \notin C THEN 0 ELSE 1 + Span(Tail(s), C)

\* the elements of a sequence
Range(f) == {f[i] : i \in DOMAIN f}

\* s.strip()
RECURSIVE RStrip(_)
RStrip(s) ==
    IF s = EmptyStr \/ s[Len(s)] \notin Space THEN s
    ELSE RStrip(SubSeq(s, 1, Len(s) - 1))
Strip(s) == RStrip(From(s, Span(s, Space) + 1))

\* s.lower(), on the letters a prompt answer is drawn from
LowerChar(c) == IF c = "Y" THEN "y" ELSE IF c = "N" THEN "n" ELSE c
Lower(s) == [i \in 1..Len(s) |-> LowerChar(s[i])]

\* sub in s, for Python strings
Contains(s, sub) ==
    \E i \in 0..(Len(s) - Len(sub)) : SubSeq(s, i + 1, i + Len(sub)) = sub

\* '\n'.join(lines) with a trailing newline after every line, as a command prints
RECURSIVE Output(_)
Output(lines) ==
    IF lines = << >> THEN EmptyStr
    ELSE Head(lines) \o <<"\n">> \o Output(Tail(lines))

\* text.splitlines(), as a sequence of lines
RECURSIVE SplitLines(_)
SplitLines(text) ==
    IF text = EmptyStr THEN << >>
    ELSE LET n == Span(text, Range(text) \ {"\n"})
         IN  <<SubSeq(text, 1, n)>> \o SplitLines(From(text, n + 2))

\* a sequence that lists the set S once each (the order a listing prints)
RECURSIVE SeqOf(_)
SeqOf(S) ==
    IF S = {} THEN << >>
    ELSE LET x == CHOOSE y \in S : TRUE IN <<x>> \o SeqOf(S \ {x})

(***************************************************************************)
(* Regular expressions, matched at the start of the string as re.match     *)
(* does.  In each of them the adjacent repetitions are over disjoint       *)
(* classes, so the greedy run is the only way to match.                    *)
(***************************************************************************)
\* C+ : the rest of s after one or more characters of class C
Plus(s, C) ==
    IF s = Fail \/ Span(s, C) = 0 THEN Fail ELSE From(s, Span(s, C) + 1)
\* one character of class C
One(s, C) ==
    IF s = Fail \/ s = EmptyStr THEN Fail
    ELSE IF Head(s) \in C THEN Tail(s) ELSE Fail

\* r'\s+[|`]-\s+\d+:\d+:\d+:\d+\s+(?P<disk>\w+)\s+\d+:\d+' ; the group 'disk'
re_multipath(line) ==
    LET a == One(One(Plus(line, Space), {"|", BackQuote}), {"-"})
        b == Plus(Plus(a, Space), Digit)
        c == Plus(One(b, {":"}), Digit)
        d == Plus(One(c, {":"}), Digit)
        e == Plus(One(d, {":"}), Digit)
        f == Plus(e, Space)
        g == Plus(f, Word)
        h == Plus(One(Plus(Plus(g, Space), Digit), {":"}), Digit)
    IN  IF h = Fail THEN None ELSE SubSeq(f, 1, Span(f, Word))

DevPrefix == <<"/", "d", "e", "v", "/">>
Mapper == <<"m", "a", "p", "p", "e", "r">>
DevMapperPrefix == DevPrefix \o Mapper \o <<"/">>

\* r'(/dev/(?!mapper)(?P<disk>[a-zA-Z]+)\d*)|(/dev/mapper/(?P<alias>\w+))'
\* whether it matches, and the groups 'disk' and 'alias' of the match
re_mounted(device) ==
    LET rest == From(device, Len(DevPrefix) + 1)
        name == From(device, Len(DevMapperPrefix) + 1)
    IN  IF /\ StartsWith(device, DevPrefix)
           /\ ~StartsWith(rest, Mapper)
           /\ Span(rest, Alpha) >= 1
        THEN [matched |-> TRUE, disk |-> SubSeq(rest, 1, Span(rest, Alpha)),
              alias |-> None]
        ELSE IF /\ StartsWith(device, DevMapperPrefix)
                /\ Span(name, Word) >= 1
        THEN [matched |-> TRUE, disk |-> None,
              alias |-> SubSeq(name, 1, Span(name, Word))]
        ELSE [matched |-> FALSE, disk |-> None, alias |-> None]

\* r'/dev/(?P<disk>[a-zA-Z]+)\d*' ; the group 'disk', or Fail
re_lvm(disk) ==
    LET rest == From(disk, Len(DevPrefix) + 1)
    IN  IF StartsWith(disk, DevPrefix) /\ Span(rest, Alpha) >= 1
        THEN SubSeq(rest, 1, Span(rest, Alpha))
        ELSE Fail

(***************************************************************************)
(* The host: what its tools print.                                         *)
(***************************************************************************)
\* /sys/block
HostBlockDevices == DiskNames \cup {dm0}

\* one path line of `multipath -ll`, e.g. "  |- 1:0:0:1 sdg 8:96 active"
PathLine(disk, corner) ==
    <<" ", " ", corner, "-", " ", "1", ":", "0", ":", "0", ":", "1", " ">>
    \o disk \o <<" ", "8", ":", "9", "6", " ", "a", "c", "t", "i", "v", "e">>

RECURSIVE PathLines(_)
PathLines(members) ==
    IF members = << >> THEN << >>
    ELSE <<PathLine(Head(members), IF Len(members) = 1 THEN BackQuote ELSE "|")>>
         \o PathLines(Tail(members))

\* the output of `multipath -ll <alias>` for an alias with the given members
MultipathInfo(alias, members) ==
    Output(<<alias \o <<" ", "d", "m", "-", "3">>,
             <<"s", "i", "z", "e", "=", "2", "0", "G">>,
             <<BackQuote, "-", "+", "-", " ", "p", "r", "i", "o", "=", "0">>>>
           \o PathLines(SeqOf(members)))

\* the multipath maps a host can have: some aliases, each with some paths
HostMaps ==
    UNION {[D -> {m \in SUBSET DiskNames : Cardinality(m) <= MaxPaths}] :
           D \in SUBSET AliasNames}

\* the sources `findmnt` can list: a partition, a whole disk, a mapped device
MountSources ==
    {DevPrefix \o sda \o <<"2">>, DevPrefix \o sdc}
    \cup {DevMapperPrefix \o a : a \in AliasNames}

\* the lines `pvs` can print (indented)
PvLines ==
    {<<" ", " ">> \o DevPrefix \o sdb \o <<"1">>,
     <<" ", " ">> \o DevMapperPrefix \o vol}

\* the outcomes of subprocess.check_output: the output of a command that ran
\* and exited 0, CalledProcessError (non-zero exit), OSError (no such program)
Listings(lines) ==
    {[status |-> "ok", output |-> Output(SeqOf(L))] :
        L \in {X \in SUBSET lines : Cardinality(X) <= MaxLines}}
    \cup {[status |-> "CalledProcessError", output |-> EmptyStr],
          [status |-> "OSError", output |-> EmptyStr]}

(***************************************************************************)
(* Python dictionaries and the inputs of one run.                          *)
(***************************************************************************)
\* the key 'protected' of disk_mappings
ProtectedKey == <<"p", "r", "o", "t", "e", "c", "t", "e", "d">>
EmptyDict == [k \in {} |-> {}]
\* d[k] = v
Put(d, k, v) == [x \in DOMAIN d \cup {k} |-> IF x = k THEN v ELSE d[x]]
\* d without the key k (d.pop(k) leaves it)
Without(d, k) == [x \in DOMAIN d \ {k} |-> d[x]]

\* the command lines: the names after -s, the names after -m, and -y
CommandLines ==
    {[standard |-> s, multipath |-> m, assume_yes |-> y] :
        s \in SUBSET (DiskNames \cup {dm0}), m \in SUBSET AliasNames, y \in BOOLEAN}
ArgCount(a) == Cardinality(a.standard) + Cardinality(a.multipath)

\* the answers typed at the confirmation prompt
Responses == {<<"y">>, <<"Y">>, <<"n">>, EmptyStr}

\* the multipath side of a host: `multipath -l -v 1` runs and lists the aliases
\* of the map, or exits non-zero, or the program is not installed
Hosts ==
    {[status |-> "ok", map |-> m] : m \in HostMaps}
    \cup {[status |-> "CalledProcessError", map |-> EmptyDict],
          [status |-> "OSError", map |-> EmptyDict]}

\* no exception has been raised
NoException == [type |-> "none", raised_in |-> "none", message |-> "none"]

VARIABLES
    pc,                \* position of the run
    uid,               \* os.getuid()
    argv,              \* the command line
    host,              \* the multipath state of the host
    multipath_devices, \* main: output of `multipath -l -v 1`
    disks,             \* main, delete_devices: the disks to delete
    aliases,           \* main, delete_devices: the aliases to flush
    disk_mappings,     \* disk_associations: alias -> disks, and 'protected'
    mounted_devices,   \* disk_associations: output of findmnt
    lvm_disks,         \* disk_associations: output of pvs
    device_groups,     \* delete_devices: the map without 'protected'
    protected_devices, \* delete_devices: the protected set
    response,          \* delete_devices: the answer to the prompt, or None
    confirmed,         \* delete_devices: whether a branch with the loops is taken
    todo_aliases,      \* aliases the flush loop has yet to visit
    todo_disks,        \* disks the delete loop has yet to visit
    current,           \* the disk between its offline and its delete write
    flushes,           \* alias -> number of `multipath -f` calls issued
    offline_writes,    \* disk -> number of writes of 'offline' attempted
    delete_writes,     \* disk -> number of writes of '1' to delete attempted
    errors,            \* aliases reported by 'Error: cannot flush ...'
    exception          \* the sys.exit or uncaught exception that ended the run

vars == <<pc, uid, argv, host, multipath_devices, disks, aliases, disk_mappings,
          mounted_devices, lvm_disks, device_groups, protected_devices, response,
          confirmed, todo_aliases, todo_disks, current, flushes, offline_writes,
          delete_writes, errors, exception>>

mainVars == <<multipath_devices, disks, aliases>>
collectorVars == <<disk_mappings, mounted_devices, lvm_disks>>
resolverVars == <<device_groups, protected_devices>>
executorVars == <<response, confirmed, todo_aliases, todo_disks, current, flushes,
                  offline_writes, delete_writes, errors>>
inputVars == <<uid, argv, host>>

Init ==
    /\ pc = "main"
    /\ uid \in {0, 1000}
    /\ argv \in {a \in CommandLines : ArgCount(a) <= MaxArgs}
    /\ host \in Hosts
    /\ multipath_devices = EmptyStr
    /\ disks = {}
    /\ aliases = {}
    /\ disk_mappings = EmptyDict
    /\ mounted_devices = EmptyStr
    /\ lvm_disks = EmptyStr
    /\ device_groups = EmptyDict
    /\ protected_devices = {}
    /\ response = None
    /\ confirmed = FALSE
    /\ todo_aliases = {}
    /\ todo_disks = {}
    /\ current = None
    /\ flushes = EmptyDict
    /\ offline_writes = EmptyDict
    /\ delete_writes = EmptyDict
    /\ errors = {}
    /\ exception = NoException

(***************************************************************************)
(* main().  The command line is kept as the names that follow -s, the      *)
(* names that follow -m and the flag -y; -v only adds messages and -h      *)
(* prints the usage text, neither is modelled.  The host answers           *)
(* `multipath -l -v 1` the same way in main and in disk_associations.      *)
(***************************************************************************)
\* the SCSI disks of /sys/block
valid_disks == {d \in HostBlockDevices : SubSeq(d, 1, 2) = <<"s", "d">>}

\* `arg in valid_disks`
ValidDisk(arg) == arg \in valid_disks

\* `arg in multipath_devices`, multipath_devices being the output string
ValidAlias(arg, output) == Contains(output, arg)

\* subprocess.check_output(['multipath', '-l', '-v', '1']) on this host
MultipathListing ==
    [status |-> host.status, output |-> Output(SeqOf(DOMAIN host.map))]

\* sys.exit(message) in main
Exit(message) ==
    /\ pc' = "exit"
    /\ exception' = [type |-> "SystemExit", raised_in |-> "main",
                     message |-> message]

\* an exception no except clause of the program catches
Raise(type, function) ==
    /\ pc' = "crashed"
    /\ exception' = [type |-> type, raised_in |-> function, message |-> "none"]

Main ==
    /\ pc = "main"
    /\ IF uid # 0
       THEN /\ Exit("Insufficient privileges")
            /\ UNCHANGED mainVars
       ELSE IF MultipathListing.status = "OSError"
       THEN /\ Raise("OSError", "main")
            /\ UNCHANGED mainVars
       ELSE LET out == IF MultipathListing.status = "ok"
                       THEN MultipathListing.output ELSE EmptyStr
                badDisks == {a \in argv.standard : ~ValidDisk(a)}
                badAliases == {a \in argv.multipath : ~ValidAlias(a, out)}
            IN  /\ multipath_devices' = out
                /\ IF badDisks # {} \/ badAliases # {}
                   THEN \* the first invalid argument ends the run
                        /\ \E a \in badDisks \cup badAliases :
                             Exit(IF a \in badDisks
                                  THEN "Invalid block device"
                                  ELSE "Invalid multipath alias")
                        /\ UNCHANGED <<disks, aliases>>
                   ELSE IF argv.standard = {} /\ argv.multipath = {}
                   THEN /\ Exit("Select at least one disk or alias.")
                        /\ UNCHANGED <<disks, aliases>>
                   ELSE /\ disks' = argv.standard
                        /\ aliases' = argv.multipath
                        /\ pc' = "disk_associations"
                        /\ UNCHANGED exception
    /\ UNCHANGED <<inputVars, collectorVars, resolverVars, executorVars>>

(***************************************************************************)
(* disk_associations()                                                     *)
(***************************************************************************)
\* lines 66-68: the disks of the path lines of one `multipath -ll` output
PathDisks(multipath_info) ==
    {re_multipath(line) : line \in Range(SplitLines(multipath_info))} \ {None}

\* lines 33-68: list the aliases, then query each one.  Each `multipath -ll`
\* either prints the topology or exits non-zero.
QueryMultipath ==
    /\ pc = "disk_associations"
    /\ LET listing == IF MultipathListing.status = "ok"
                      THEN MultipathListing.output ELSE EmptyStr
           devices == {Strip(line) : line \in Range(SplitLines(listing))}
       IN  \E failed \in SUBSET devices :
             disk_mappings' =
                [device \in devices |->
                    IF device \in failed THEN {}
                    ELSE PathDisks(MultipathInfo(device, host.map[device]))]
    /\ pc' = "findmnt"
    /\ UNCHANGED <<inputVars, mainVars, mounted_devices, lvm_disks, resolverVars,
                   executorVars, exception>>

\* lines 90-101: the loop over the mounted sources
RECURSIVE MountLoop(_, _)
MountLoop(mappings, lines) ==
    IF lines = << >> THEN mappings
    ELSE LET device == Strip(Head(lines))
             m == re_mounted(device)
             prot == mappings[ProtectedKey]
             next ==
                IF ~m.matched THEN mappings
                ELSE IF m.disk # None /\ m.disk # EmptyStr
                THEN Put(mappings, ProtectedKey, prot \cup {m.disk})
                ELSE IF m.alias # None /\ m.alias # EmptyStr
                THEN LET p1 == prot \cup {m.alias}
                     IN  Put(mappings, ProtectedKey,
                             IF m.alias = ProtectedKey THEN p1
                             ELSE IF m.alias \in DOMAIN mappings
                             THEN p1 \cup mappings[m.alias]
                             ELSE p1)
                ELSE mappings
         IN  MountLoop(next, Tail(lines))

\* lines 71-101: reset 'protected', list the mounted sources, protect them
QueryMounts ==
    /\ pc = "findmnt"
    /\ \E run \in Listings(MountSources) :
         IF run.status = "OSError"
         THEN /\ Raise("OSError", "disk_associations")
              /\ disk_mappings' = Put(disk_mappings, ProtectedKey, {})
              /\ UNCHANGED mounted_devices
         ELSE /\ mounted_devices' = run.output
              /\ disk_mappings' =
                    MountLoop(Put(disk_mappings, ProtectedKey, {}),
                              SplitLines(run.output))
              /\ pc' = "pvs"
              /\ UNCHANGED exception
    /\ UNCHANGED <<inputVars, mainVars, lvm_disks, resolverVars, executorVars>>

\* lines 118-121: the loop over the physical volumes
RECURSIVE LvmLoop(_, _)
LvmLoop(mappings, lines) ==
    IF lines = << >> THEN mappings
    ELSE LET disk == Strip(Head(lines))
             next == IF re_lvm(disk) = Fail THEN mappings
                     ELSE Put(mappings, ProtectedKey,
                              mappings[ProtectedKey] \cup {re_lvm(disk)})
         IN  LvmLoop(next, Tail(lines))

\* lines 104-121: list the physical volumes, protect them
QueryPvs ==
    /\ pc = "pvs"
    /\ \E run \in Listings(PvLines) :
         IF run.status = "OSError"
         THEN /\ Raise("OSError", "disk_associations")
              /\ UNCHANGED <<disk_mappings, lvm_disks>>
         ELSE /\ lvm_disks' = run.output
              /\ disk_mappings' = LvmLoop(disk_mappings, SplitLines(run.output))
              /\ pc' = "return"
              /\ UNCHANGED exception
    /\ UNCHANGED <<inputVars, mainVars, mounted_devices, resolverVars, executorVars>>

\* lines 123, 136-139: return the dictionary; delete_devices pops 'protected'.
\* The outputs are locals of disk_associations and are gone after the return.
Return ==
    /\ pc = "return"
    /\ protected_devices' = disk_mappings[ProtectedKey]
    /\ device_groups' = Without(disk_mappings, ProtectedKey)
    /\ disk_mappings' = Without(disk_mappings, ProtectedKey)
    /\ mounted_devices' = EmptyStr
    /\ lvm_disks' = EmptyStr
    /\ pc' = "expand"
    /\ UNCHANGED <<inputVars, mainVars, executorVars, exception>>

(***************************************************************************)
(* delete_devices(): resolution                                            *)
(***************************************************************************)
\* a variant that looks the disk up among the alias names (`disk in
\* device_groups`) instead of among the members of the group
GroupsOfByName(requested, groups) ==
    {group \in DOMAIN groups : group \in requested}

\* the groups the loop of lines 143-151 finds a requested disk in
GroupsOf(requested, groups) ==
    {group \in DOMAIN groups : \E disk \in requested : disk \in groups[group]}

\* the union of the member sets of the given groups
Members(names, groups) == UNION {groups[group] : group \in names}

\* a variant without the test `if disk in group_disks`: every group is added
\* as soon as a disk is requested
ExpandWithoutMembershipTest ==
    /\ pc = "expand"
    /\ aliases' = IF disks = {} THEN aliases
                  ELSE aliases \cup DOMAIN device_groups
    /\ disks' = IF disks = {} THEN disks
                ELSE disks \cup Members(DOMAIN device_groups, device_groups)
    /\ pc' = "protect"
    /\ UNCHANGED <<inputVars, multipath_devices, collectorVars, resolverVars,
                   executorVars, exception>>

\* lines 143-151: a requested disk pulls in its alias and the alias's disks.
\* The outer loop runs over a copy of the requested disks.
Expand ==
    /\ pc = "expand"
    /\ aliases' = aliases \cup GroupsOf(disks, device_groups)
    /\ disks' = disks \cup Members(GroupsOf(disks, device_groups), device_groups)
    /\ pc' = "protect"
    /\ UNCHANGED <<inputVars, multipath_devices, collectorVars, resolverVars,
                   executorVars, exception>>

\* line 154
selected_protected_devices ==
    (protected_devices \cap disks) \cup (protected_devices \cap aliases)

\* lines 154-162: drop the protected devices from the request
Protect ==
    /\ pc = "protect"
    /\ IF selected_protected_devices # {}
       THEN /\ aliases' = aliases \ protected_devices
            /\ disks' = disks \ protected_devices
       ELSE UNCHANGED <<disks, aliases>>
    /\ pc' = "materialize"
    /\ UNCHANGED <<inputVars, multipath_devices, collectorVars, resolverVars,
                   executorVars, exception>>

\* a variant that looks every alias up but does not add its disks
MaterializeWithoutUnion ==
    /\ pc = "materialize"
    /\ IF aliases \subseteq DOMAIN device_groups
       THEN /\ pc' = "confirm"
            /\ UNCHANGED <<disks, exception>>
       ELSE /\ Raise("KeyError", "delete_devices")
            /\ UNCHANGED disks
    /\ UNCHANGED <<inputVars, multipath_devices, aliases, collectorVars,
                   resolverVars, executorVars>>

\* lines 164-165: add the disks of every remaining alias; device_groups[alias]
\* raises KeyError for an alias that is not a key
Materialize ==
    /\ pc = "materialize"
    /\ IF aliases \subseteq DOMAIN device_groups
       THEN /\ disks' = disks \cup Members(aliases, device_groups)
            /\ pc' = "confirm"
            /\ UNCHANGED exception
       ELSE /\ Raise("KeyError", "delete_devices")
            /\ UNCHANGED disks
    /\ UNCHANGED <<inputVars, multipath_devices, aliases, collectorVars,
                   resolverVars, executorVars>>

(***************************************************************************)
(* delete_devices(): confirmation and the device actions                   *)
(***************************************************************************)
Zero(S) == [x \in S |-> 0]
Incr(f, x) == [f EXCEPT ![x] = @ + 1]

\* the loops of lines 170-182 and 195-207 start
StartLoops ==
    /\ pc' = "flush"
    /\ confirmed' = TRUE
    /\ todo_aliases' = aliases
    /\ todo_disks' = disks
    /\ flushes' = Zero(aliases)
    /\ offline_writes' = Zero(disks)
    /\ delete_writes' = Zero(disks)

\* lines 167, 184-192: go ahead with -y, else ask when anything is left
Confirm ==
    /\ pc = "confirm"
    /\ IF argv.assume_yes
       THEN StartLoops /\ UNCHANGED response
       ELSE IF aliases # {} \/ disks # {}
       THEN \E answer \in Responses :
              /\ response' = answer
              /\ IF Lower(answer) = <<"y">>
                 THEN StartLoops
                 ELSE /\ pc' = "done"
                      /\ UNCHANGED <<confirmed, todo_aliases, todo_disks,
                                     flushes, offline_writes, delete_writes>>
       ELSE /\ pc' = "done"
            /\ UNCHANGED <<response, confirmed, todo_aliases, todo_disks, flushes,
                           offline_writes, delete_writes>>
    /\ UNCHANGED <<inputVars, mainVars, collectorVars, resolverVars, current,
                   errors, exception>>

\* lines 170-175 (195-200): `multipath -f alias`; a non-zero exit is reported
Flush ==
    /\ pc = "flush"
    /\ \E alias \in todo_aliases, exit_code \in {0, 1} :
         /\ flushes' = Incr(flushes, alias)
         /\ errors' = IF exit_code # 0 THEN errors \cup {alias} ELSE errors
         /\ todo_aliases' = todo_aliases \ {alias}
    /\ UNCHANGED <<pc, inputVars, mainVars, collectorVars, resolverVars, response,
                   confirmed, todo_disks, current, offline_writes, delete_writes,
                   exception>>

\* the flush loop is over, the disk loop begins
FlushDone ==
    /\ pc = "flush"
    /\ todo_aliases = {}
    /\ pc' = "delete"
    /\ UNCHANGED <<inputVars, mainVars, collectorVars, resolverVars, executorVars,
                   exception>>

\* lines 179-180 (204-205): write 'offline' to /sys/block/<disk>/device/state;
\* open() or the write raises IOError when it fails
WriteOffline ==
    /\ pc = "delete"
    /\ current = None
    /\ \E disk \in todo_disks, ok \in BOOLEAN :
         /\ offline_writes' = Incr(offline_writes, disk)
         /\ IF ok
            THEN /\ current' = disk
                 /\ UNCHANGED <<pc, exception>>
            ELSE /\ Raise("IOError", "delete_devices")
                 /\ UNCHANGED current
    /\ UNCHANGED <<inputVars, mainVars, collectorVars, resolverVars, response,
                   confirmed, todo_aliases, todo_disks, flushes, delete_writes,
                   errors>>

\* lines 181-182 (206-207): write '1' to /sys/block/<disk>/device/delete
WriteDelete ==
    /\ pc = "delete"
    /\ current # None
    /\ \E ok \in BOOLEAN :
         /\ delete_writes' = Incr(delete_writes, current)
         /\ IF ok
            THEN /\ todo_disks' = todo_disks \ {current}
                 /\ current' = None
                 /\ UNCHANGED <<pc, exception>>
            ELSE /\ Raise("IOError", "delete_devices")
                 /\ UNCHANGED <<todo_disks, current>>
    /\ UNCHANGED <<inputVars, mainVars, collectorVars, resolverVars, response,
                   confirmed, todo_aliases, flushes, offline_writes, errors>>

\* the disk loop is over
Finish ==
    /\ pc = "delete"
    /\ current = None
    /\ todo_disks = {}
    /\ pc' = "done"
    /\ UNCHANGED <<inputVars, mainVars, collectorVars, resolverVars, executorVars,
                   exception>>

Next ==
    \/ Main
    \/ QueryMultipath
    \/ QueryMounts
    \/ QueryPvs
    \/ Return
    \/ Expand
    \/ Protect
    \/ Materialize
    \/ Confirm
    \/ Flush
    \/ FlushDone
    \/ WriteOffline
    \/ WriteDelete
    \/ Finish

Spec == Init /\ [][Next]_vars

\* the run up to the resolved deletion set (the state delete_devices is in when
\* it reaches line 167)
NextResolve ==
    \/ Main
    \/ QueryMultipath
    \/ QueryMounts
    \/ QueryPvs
    \/ Return
    \/ Expand
    \/ Protect
    \/ Materialize

SpecResolve == Init /\ [][NextResolve]_vars

(***************************************************************************)
(* Vocabulary of the properties.                                           *)
(***************************************************************************)
\* delete_devices has reached line 167: disks and aliases are the final sets
Resolved == pc = "confirm"

\* the request main() passed to delete_devices
RequestedDisks == argv.standard
RequestedAliases == argv.multipath

\* the aliases multipath knows on this host
KnownAliases == IF host.status = "ok" THEN DOMAIN host.map ELSE {}

\* the run is over
Terminated == pc \in {"done", "exit", "crashed"}

\* no flush was issued and no control file was written
NothingDestroyed ==
    /\ \A a \in DOMAIN flushes : flushes[a] = 0
    /\ \A d \in DOMAIN offline_writes : offline_writes[d] = 0
    /\ \A d \in DOMAIN delete_writes : delete_writes[d] = 0

\* the partition numbers a device path can end in
Suffixes == {EmptyStr, <<"1">>, <<"2">>, <<"3">>}

\* alias A shares no member disk with another alias of the map
Exclusive(A) ==
    \A B \in DOMAIN device_groups \ {A} :
        device_groups[A] \cap device_groups[B] = {}

(***************************************************************************)
(* C1  The resolved sets contain no protected identifier.                  *)
(***************************************************************************)
\* C1: whenever delete_devices reaches its final (disks, aliases), no member
\* of the protected set is in the final disk set or in the final alias set.
C1_NoProtectedDeviceResolved ==
    Resolved => protected_devices \cap (disks \cup aliases) = {}

(***************************************************************************)
(* C2  No alias is deleted in part.                                        *)
(***************************************************************************)
\* C2 as stated: for every alias A of the map, the final disk set holds none
\* of A's members, or all of them together with A in the final alias set.
C2_NoPartialMultipathDeletion ==
    Resolved =>
        \A A \in DOMAIN device_groups :
            \/ device_groups[A] \cap disks = {}
            \/ device_groups[A] \subseteq disks /\ A \in aliases

\* C2 amended: the same, for every alias A that shares no member disk with
\* another alias of the map.
C2_NoPartialDeletionOfExclusiveAlias ==
    Resolved =>
        \A A \in DOMAIN device_groups :
            Exclusive(A) =>
                \/ device_groups[A] \cap disks = {}
                \/ device_groups[A] \subseteq disks /\ A \in aliases

\* C2 witness: a single requested path of an exclusive two-path alias, one
\* member of which is protected, ends with the whole alias resolved.
C2_Witness ==
    /\ Resolved
    /\ RequestedAliases = {}
    /\ \E A \in DOMAIN device_groups :
        /\ Exclusive(A)
        /\ Cardinality(device_groups[A]) = 2
        /\ Cardinality(device_groups[A] \cap RequestedDisks) = 1
        /\ device_groups[A] \cap protected_devices # {}
        /\ device_groups[A] \subseteq disks
        /\ A \in aliases

(***************************************************************************)
(* C3  Sibling expansion is complete.                                      *)
(***************************************************************************)
\* C3 as stated: when the request is ({D}, {}) and D is a member of alias A,
\* the final disk set includes all members of A and the final alias set has A.
C3_SiblingExpansionComplete ==
    Resolved =>
        \A D \in DiskNames, A \in DOMAIN device_groups :
            (RequestedDisks = {D} /\ RequestedAliases = {} /\ D \in device_groups[A])
            => (device_groups[A] \subseteq disks /\ A \in aliases)

\* C3 amended: the same, provided A is not in the protected set.
C3_SiblingExpansionOfUnprotectedAlias ==
    Resolved =>
        \A D \in DiskNames, A \in DOMAIN device_groups :
            (/\ RequestedDisks = {D}
             /\ RequestedAliases = {}
             /\ D \in device_groups[A]
             /\ A \notin protected_devices)
            => (device_groups[A] \subseteq disks /\ A \in aliases)

\* C3 witness: one path of an unprotected two-path alias was requested while
\* something else is protected, and both paths and the alias are resolved.
C3_Witness ==
    /\ Resolved
    /\ RequestedAliases = {}
    /\ protected_devices # {}
    /\ \E D \in DiskNames, A \in DOMAIN device_groups :
        /\ RequestedDisks = {D}
        /\ D \in device_groups[A]
        /\ A \notin protected_devices
        /\ Cardinality(device_groups[A]) = 2
        /\ device_groups[A] \subseteq disks
        /\ A \in aliases

(***************************************************************************)
(* C4  disk_associations never fails.                                      *)
(***************************************************************************)
\* C4: no run ends with an uncaught exception raised in disk_associations,
\* whatever the outcome of its queries (output, non-zero exit, no such tool).
C4_CollectorNeverFails ==
    ~(pc = "crashed" /\ exception.raised_in = "disk_associations")

(***************************************************************************)
(* C5  A failed device action does not stop the others.                    *)
(***************************************************************************)
\* C5: when a confirmed run is over, every alias of the resolved set has been
\* flushed and every disk of the resolved set has had its offline write
\* attempted, whichever flushes and writes failed; the errors reported are
\* those of aliases of the resolved set.
C5_FailedActionIsPerDevice ==
    (Terminated /\ confirmed) =>
        /\ \A a \in aliases : flushes[a] >= 1
        /\ \A d \in disks : offline_writes[d] >= 1
        /\ errors \subseteq aliases

(***************************************************************************)
(* C6  Invalid input never reaches delete_devices.                         *)
(***************************************************************************)
\* C6: once main has called delete_devices, every alias argument is one of the
\* aliases known to multipath and every disk argument is an sd* block device
\* of the host, and something was selected; a run that exits does so without
\* a flush or a write; every alias that reaches lines 164-165 is a key of the
\* relationship map.
C6_OnlyValidInputIsPassed ==
    /\ (pc \notin {"main", "exit"} /\ exception.raised_in # "main") =>
            /\ RequestedAliases \subseteq KnownAliases
            /\ RequestedDisks \subseteq valid_disks
            /\ RequestedAliases \cup RequestedDisks # {}
    /\ pc = "exit" => NothingDestroyed
    /\ pc = "materialize" => aliases \subseteq DOMAIN device_groups

(***************************************************************************)
(* C7  A mounted source protects the whole device.                         *)
(***************************************************************************)
\* C7: after the mount listing is processed, for every listed source: if it is
\* /dev/<disk><n>, the protected set has <disk> and, when <n> is not empty,
\* not <disk><n>; if it is /dev/mapper/<alias> for an alias of the host, the
\* protected set has the alias and, when the alias is a key of the map, all
\* its member disks.
C7_MountProtectsWholeDevice ==
    pc \in {"pvs", "return"} =>
        \A source \in Range(SplitLines(mounted_devices)) :
            /\ \A d \in DiskNames, n \in Suffixes :
                 source = DevPrefix \o d \o n =>
                    /\ d \in disk_mappings[ProtectedKey]
                    /\ n # EmptyStr => (d \o n) \notin disk_mappings[ProtectedKey]
            /\ \A a \in KnownAliases :
                 source = DevMapperPrefix \o a =>
                    /\ a \in disk_mappings[ProtectedKey]
                    /\ a \in DOMAIN disk_mappings =>
                          disk_mappings[a] \subseteq disk_mappings[ProtectedKey]

(***************************************************************************)
(* C8  Every physical volume is protected.                                 *)
(***************************************************************************)
\* C8: when disk_associations returns, for every listed physical volume: if it
\* is /dev/<disk><n>, the protected set has <disk>; if it is
\* /dev/mapper/<alias> for an alias of the host, the protected set has the
\* alias and its member disks.
C8_PhysicalVolumesProtected ==
    pc = "return" =>
        \A line \in Range(SplitLines(lvm_disks)) :
            /\ \A d \in DiskNames, n \in Suffixes :
                 Strip(line) = DevPrefix \o d \o n =>
                    d \in disk_mappings[ProtectedKey]
            /\ \A a \in KnownAliases :
                 Strip(line) = DevMapperPrefix \o a =>
                    /\ a \in disk_mappings[ProtectedKey]
                    /\ a \in DOMAIN disk_mappings =>
                          disk_mappings[a] \subseteq disk_mappings[ProtectedKey]

(***************************************************************************)
(* C9  Every destructive action is attempted exactly once.                 *)
(***************************************************************************)
\* C9: no flush and no write is ever repeated and no delete write precedes
\* the offline write of its disk; when a confirmed run is over, each alias of
\* the resolved set has had exactly one flush and each disk exactly one
\* offline write and one delete write; a run that is not confirmed issues no
\* flush and no write.
C9_EveryActionExactlyOnce ==
    /\ \A a \in DOMAIN flushes : flushes[a] <= 1
    /\ \A d \in DOMAIN offline_writes :
          offline_writes[d] <= 1 /\ delete_writes[d] <= offline_writes[d]
    /\ (Terminated /\ confirmed) =>
          /\ \A a \in aliases : flushes[a] = 1
          /\ \A d \in disks : offline_writes[d] = 1 /\ delete_writes[d] = 1
    /\ ~confirmed => NothingDestroyed

(***************************************************************************)
(* C10  Resolution pulls in no unrelated device.                           *)
(***************************************************************************)
\* C10: every disk of the final disk set was requested or is a member of an
\* alias of the final alias set; every alias of the final alias set was
\* requested or has a requested disk as a member; a request of disks only,
\* none of them protected or a member of any alias, is returned unchanged.
C10_NoUnrelatedDevice ==
    Resolved =>
        /\ \A d \in disks :
              \/ d \in RequestedDisks
              \/ \E A \in aliases \cap DOMAIN device_groups : d \in device_groups[A]
        /\ \A A \in aliases :
              \/ A \in RequestedAliases
              \/ /\ A \in DOMAIN device_groups
                 /\ \E d \in RequestedDisks : d \in device_groups[A]
        /\ (/\ RequestedAliases = {}
            /\ RequestedDisks \cap protected_devices = {}
            /\ \A A \in DOMAIN device_groups :
                  RequestedDisks \cap device_groups[A] = {})
           => (disks = RequestedDisks /\ aliases = {})

\* C10 witness: a requested disk pulled in its alias and a sibling, another
\* alias of the map stayed out, and a protected device was dropped.
C10_Witness ==
    /\ Resolved
    /\ disks \ RequestedDisks # {}
    /\ aliases \ RequestedAliases # {}
    /\ DOMAIN device_groups \ aliases # {}
    /\ (RequestedDisks \cup RequestedAliases) \cap protected_devices # {}

====
